---- MODULE Spec2Model ----
(***************************************************************************)
(* A model of target_postgres/db_sync.py: the identifier inflector         *)
(* (inflect_column_name, flatten_key), the type mapper (column_type), the  *)
(* schema and record flatteners (flatten_schema, flatten_record) and the   *)
(* DbSync session (sync_table, update_columns, load_csv).                  *)
(*                                                                         *)
(* Python strings are sequences of one-character strings, so that the      *)
(* regular expressions, the slices and the lengths of the source are       *)
(* computed character by character.                                        *)
(***************************************************************************)
EXTENDS Integers, Sequences, FiniteSets, Bags, TLC

VARIABLES
    mode,            \* which part of the program this behaviour runs
    pc,              \* position inside the running function
    full_key,        \* flatten_key: parent_key + [k]
    inflected_key,   \* flatten_key: the list being shortened
    reducer_index,   \* flatten_key: the loop index (0-based, as in the source)
    ident,           \* flatten_key: the returned identifier
    descriptor,      \* column_type: the schema_property it is called on
    storage_type,    \* column_type: the returned type
    stream_schema_message,  \* DbSync: the SCHEMA message of the stream
    self_flatten_schema,    \* DbSync: self.flatten_schema, in column order
    exception,              \* the exception that left the running function
    record_arg,      \* record_to_csv_line: the record it is called on
    flat_record,     \* record_to_csv_line: flatten, the flattened record
    csv_line,        \* record_to_csv_line: the fields of the returned line
    tables,          \* database: the table names of the target schema
    table_columns,   \* database: information_schema.columns of the stream's table
    statements,      \* database: the statements the running sync_table issued
    columns_dict,    \* update_columns: the catalog columns it fetched
    columns_to_add,  \* update_columns: the clauses still to add
    columns_to_replace,  \* update_columns: the (name, clause) pairs still to replace
    sync_runs,       \* the number of sync_table calls started
    table_rows,      \* database: the rows of the stream's table
    temp_table,      \* database: the temp table of the open transaction
    committed_rows,  \* database: the rows of the table at each commit, the last last
    file_rows,       \* load_csv: the rows of the file it is called on
    rejected_count,  \* DbSync: self.rejected_count
    table_primary_key,  \* database: the PRIMARY KEY columns of the stream's table
    loads            \* the number of load_csv calls of the session so far

vars == <<mode, pc, full_key, inflected_key, reducer_index, ident,
          descriptor, storage_type,
          stream_schema_message, self_flatten_schema, exception,
          record_arg, flat_record, csv_line,
          tables, table_columns, statements, columns_dict, columns_to_add,
          columns_to_replace, sync_runs,
          table_rows, temp_table, committed_rows, file_rows, rejected_count,
          table_primary_key, loads>>

(***************************************************************************)
(* Characters.                                                             *)
(***************************************************************************)
LowerChars == {"a", "b", "c", "x"}
UpperChars == {"A", "B", "C", "X"}
DigitChars == {"1", "2"}

IsLower(c) == c \in LowerChars
IsUpper(c) == c \in UpperChars
IsDigit(c) == c \in DigitChars

\* str.lower() on one character
LowerChar(c) ==
    CASE c = "A" -> "a" [] c = "B" -> "b" [] c = "C" -> "c" [] c = "X" -> "x"
      [] OTHER -> c

\* str.upper() on one character
UpperChar(c) ==
    CASE c = "a" -> "A" [] c = "b" -> "B" [] c = "c" -> "C" [] c = "x" -> "X"
      [] OTHER -> c

\* the code point order Python's sorted() compares strings by
Ord(c) ==
    CASE c = "-" -> 45 [] c = "1" -> 49 [] c = "2" -> 50
      [] c = "A" -> 65 [] c = "B" -> 66 [] c = "C" -> 67 [] c = "X" -> 88
      [] c = "_" -> 95
      [] c = "a" -> 97 [] c = "b" -> 98 [] c = "c" -> 99 [] c = "x" -> 120

RECURSIVE Flat(_)
\* ''.join(pieces)
Flat(pieces) ==
    IF pieces = <<>> THEN <<>> ELSE Head(pieces) \o Flat(Tail(pieces))

Lower(s) == [i \in 1..Len(s) |-> LowerChar(s[i])]

\* n copies of the character c
Rep(c, n) == [i \in 1..n |-> c]

(***************************************************************************)
(* inflection.underscore and inflection.camelize (the library calls of     *)
(* lines 40 and 56), regular expression by regular expression.             *)
(***************************************************************************)
\* re.sub(r"([A-Z]+)([A-Z][a-z])", r'\1_\2', word)
UnderscoreAcronym(word) ==
    Flat([i \in 1..Len(word) |->
            IF /\ i > 1 /\ i < Len(word)
               /\ IsUpper(word[i - 1]) /\ IsUpper(word[i]) /\ IsLower(word[i + 1])
            THEN <<"_", word[i]>> ELSE <<word[i]>>])

\* re.sub(r"([a-z\d])([A-Z])", r'\1_\2', word)
UnderscoreCamel(word) ==
    Flat([i \in 1..Len(word) |->
            IF /\ i > 1
               /\ (IsLower(word[i - 1]) \/ IsDigit(word[i - 1])) /\ IsUpper(word[i])
            THEN <<"_", word[i]>> ELSE <<word[i]>>])

\* word.replace("-", "_")
ReplaceDash(word) == [i \in 1..Len(word) |-> IF word[i] = "-" THEN "_" ELSE word[i]]

underscore(word) == Lower(ReplaceDash(UnderscoreCamel(UnderscoreAcronym(word))))

RECURSIVE CamelizeFrom(_, _)
\* re.sub(r"(?:^|_)(.)", lambda m: m.group(1).upper(), string), scanning from i
CamelizeFrom(string, i) ==
    IF i > Len(string) THEN <<>>
    ELSE IF i = 1 THEN <<UpperChar(string[1])>> \o CamelizeFrom(string, 2)
    ELSE IF string[i] = "_" /\ i < Len(string)
         THEN <<UpperChar(string[i + 1])>> \o CamelizeFrom(string, i + 2)
    ELSE <<string[i]>> \o CamelizeFrom(string, i + 1)

camelize(string) == CamelizeFrom(string, 1)

(***************************************************************************)
(* inflect_column_name                                                     *)
(***************************************************************************)
\* re.sub(r"([A-Z]+)_([A-Z][a-z])", r'\1__\2', name)
DoubleAcronymUnderscore(name) ==
    Flat([i \in 1..Len(name) |->
            IF /\ name[i] = "_" /\ i > 1 /\ i + 1 < Len(name)
               /\ IsUpper(name[i - 1]) /\ IsUpper(name[i + 1]) /\ IsLower(name[i + 2])
            THEN <<"_", "_">> ELSE <<name[i]>>])

\* re.sub(r"([a-z\d])_([A-Z])", r'\1__\2', name)
DoubleCamelUnderscore(name) ==
    Flat([i \in 1..Len(name) |->
            IF /\ name[i] = "_" /\ i > 1 /\ i < Len(name)
               /\ (IsLower(name[i - 1]) \/ IsDigit(name[i - 1])) /\ IsUpper(name[i + 1])
            THEN <<"_", "_">> ELSE <<name[i]>>])

inflect_column_name(name) ==
    underscore(DoubleCamelUnderscore(DoubleAcronymUnderscore(name)))

\* '"{}"'.format(name): the quote is kept as a mark on the identifier
safe_column_name(name) == <<"\"">> \o name \o <<"\"">>

(***************************************************************************)
(* flatten_key                                                             *)
(***************************************************************************)
MaxIdentLen == 63

SEP == <<"_", "_">>

RECURSIVE Join(_, _)
\* sep.join(parts)
Join(sep, parts) ==
    IF parts = <<>> THEN <<>>
    ELSE IF Len(parts) = 1 THEN parts[1]
    ELSE parts[1] \o sep \o Join(sep, Tail(parts))

\* re.sub(r'[a-z]', '', s)
DropLower(s) == SelectSeq(s, LAMBDA c : ~IsLower(c))

\* s[0:3]
First3(s) == SubSeq(s, 1, IF Len(s) < 3 THEN Len(s) ELSE 3)

\* lines 56-58: what the segment at reducer_index is replaced by
ReducedSegment(segment) ==
    LET reduced_key == DropLower(camelize(segment))
    IN  Lower(IF Len(reduced_key) > 1 THEN reduced_key ELSE First3(segment))

\* line 55: the loop condition
MustReduce(key, index) ==
    Len(Join(SEP, key)) >= MaxIdentLen /\ index < Len(key)

RECURSIVE ReduceLoop(_, _)
\* lines 55-59: the while loop, run to its end
ReduceLoop(key, index) ==
    IF MustReduce(key, index)
    THEN ReduceLoop([key EXCEPT ![index + 1] = ReducedSegment(key[index + 1])], index + 1)
    ELSE key

InflectAll(key) == [i \in 1..Len(key) |-> inflect_column_name(key[i])]

flatten_key(k, parent_key) ==
    Join(SEP, ReduceLoop(InflectAll(parent_key \o <<k>>), 0))

(***************************************************************************)
(* Python values.  A str is [str |-> s], a list is [list |-> <<...>>], a   *)
(* dict with string keys is a record of its entries plus "keys", the keys  *)
(* in insertion order (list(v.values())[0] of line 79 depends on it), and  *)
(* a "properties" dict is the sequence of its <<name, definition>> pairs   *)
(* in insertion order, the order line 66 iterates in.                      *)
(***************************************************************************)
Str(s) == [str |-> s]
List(l) == [list |-> l]
IsStr(x) == "str" \in DOMAIN x
IsList(x) == "list" \in DOMAIN x

Range(f) == {f[i] : i \in DOMAIN f}

\* k in v.keys()
Has(v, k) == \E i \in DOMAIN v.keys : v.keys[i] = k

\* list(v.values())[0]
FirstValue(v) == v[v.keys[1]]

\* x in t, for t a str (substring; the JSON Schema type names do not contain
\* one another, so a type name is a substring of t only when it is t) or a list
In(x, t) == IF IsList(t) THEN x \in Range(t.list) ELSE t.str = x

\* line 13
NULL_TYPE == [keys |-> <<"type">>, type |-> Str("null")]

(***************************************************************************)
(* column_type                                                             *)
(***************************************************************************)
\* lines 18-34; a missing 'type' key makes line 19 raise KeyError
column_type(schema_property) ==
    IF ~Has(schema_property, "type") THEN "KeyError"
    ELSE
    LET property_type == schema_property.type
        property_format ==
            IF Has(schema_property, "format") THEN schema_property.format ELSE "None"
    IN  IF In("object", property_type) \/ In("array", property_type) THEN "jsonb"
        ELSE IF property_format = "date-time" THEN "timestamp without time zone"
        ELSE IF In("number", property_type) THEN "numeric"
        ELSE IF In("integer", property_type) /\ In("string", property_type)
             THEN "character varying"
        ELSE IF In("integer", property_type) THEN "bigint"
        ELSE IF In("boolean", property_type) THEN "boolean"
        ELSE "character varying"

\* line 47-48: the clause is kept as the pair (quoted name, type)
column_clause(name, schema_property) ==
    <<safe_column_name(name), column_type(schema_property)>>

(***************************************************************************)
(* flatten_schema                                                          *)
(***************************************************************************)
RECURSIVE StrLess(_, _)
\* a < b for Python strings
StrLess(a, b) ==
    IF a = <<>> THEN b # <<>>
    ELSE IF b = <<>> THEN FALSE
    ELSE IF a[1] = b[1] THEN StrLess(Tail(a), Tail(b))
    ELSE Ord(a[1]) < Ord(b[1])

RECURSIVE InsertItem(_, _)
\* item put into an already sorted list, after the items of the same key
InsertItem(item, sorted) ==
    IF sorted = <<>> THEN <<item>>
    ELSE IF StrLess(item[1], sorted[1][1]) THEN <<item>> \o sorted
    ELSE <<sorted[1]>> \o InsertItem(item, Tail(sorted))

RECURSIVE SortedItems(_)
\* line 90: sorted(items, key=key_func), a stable sort
SortedItems(items) ==
    IF items = <<>> THEN <<>>
    ELSE InsertItem(items[Len(items)], SortedItems(SubSeq(items, 1, Len(items) - 1)))

\* lines 91-93 left out: no group of equal keys is ever reported
DuplicateUnchecked(sorted_items) == FALSE

\* lines 91-93: some group of equal keys has more than one item
HasDuplicate(sorted_items) ==
    \E i \in 1..(Len(sorted_items) - 1) : sorted_items[i][1] = sorted_items[i + 1][1]

RECURSIVE DictItems(_)
\* dict(items): a key keeps the place of its first item and the value of its last
DictItems(items) ==
    IF items = <<>> THEN <<>>
    ELSE LET before == DictItems(SubSeq(items, 1, Len(items) - 1))
             last == items[Len(items)]
         IN  IF \E i \in DOMAIN before : before[i][1] = last[1]
             THEN [i \in DOMAIN before |->
                      IF before[i][1] = last[1] THEN last ELSE before[i]]
             ELSE Append(before, last)

Returned(items) == [raised |-> "None", items |-> items]
\* an exception that is swallowed instead
Swallowed(error) == [raised |-> "None", items |-> <<>>]

Raised(error) == [raised |-> error, items |-> <<>>]

\* lines 79-85: the nullable-union shape
AnyOfItems(new_key, v) ==
    LET properties == FirstValue(v)
    IN  IF IsStr(properties) THEN Raised("TypeError")
        ELSE IF NULL_TYPE \notin Range(properties.list) \/ Len(properties.list) > 2
             THEN Raised("ValueError")
        ELSE LET others == SelectSeq(properties.list, LAMBDA x : x # NULL_TYPE)
             IN  IF others = <<>> THEN Raised("IndexError")
                 ELSE LET property == others[1]
                      IN  IF ~Has(property, "type") THEN Raised("KeyError")
                          ELSE IF IsList(property.type)
                               THEN Returned(<<<<new_key, property>>>>)
                          ELSE Returned(<<<<new_key,
                                   [property EXCEPT
                                       !.type = List(<<"null", property.type.str>>)]>>>>)

RECURSIVE flatten_schema(_, _), SchemaItems(_, _, _)
\* lines 66-87: the loop over d['properties'], from its i-th property on
SchemaItems(properties, parent_key, i) ==
    IF i > Len(properties) THEN Returned(<<>>)
    ELSE
    LET k == properties[i][1]
        v == properties[i][2]
        new_key == flatten_key(k, parent_key)
        this ==
            IF v.keys = <<>> THEN Returned(<<>>)
            ELSE IF Has(v, "type")
                 THEN IF In("object", v.type)
                      THEN IF Has(v, "properties")
                           THEN flatten_schema(v, parent_key \o <<k>>)
                           ELSE Raised("KeyError")
                      ELSE Returned(<<<<new_key, v>>>>)
            ELSE IF Has(v, "anyOf") THEN AnyOfItems(new_key, v)
            ELSE Raised("ValueError")
    IN  IF this.raised # "None" THEN this
        ELSE LET rest == SchemaItems(properties, parent_key, i + 1)
             IN  IF rest.raised # "None" THEN rest
                 ELSE Returned(this.items \o rest.items)

\* lines 64-95
flatten_schema(d, parent_key) ==
    LET collected == SchemaItems(d.properties, parent_key, 1)
    IN  IF collected.raised # "None" THEN collected
        ELSE LET sorted_items == SortedItems(collected.items)
             IN  IF HasDuplicate(sorted_items) THEN Raised("ValueError")
                 ELSE Returned(DictItems(sorted_items))

(***************************************************************************)
(* flatten_record and record_to_csv_line.  A record is, like a properties  *)
(* dict, the sequence of its <<key, value>> pairs; a value is a number     *)
(* [num |-> n], a str, None, a list, or a nested record [dict |-> pairs].  *)
(* [json |-> v] is the str that json.dumps(v) returns.                     *)
(***************************************************************************)
Num(n) == [num |-> n]
None == [none |-> TRUE]
Dict(pairs) == [dict |-> pairs]
IsDict(x) == "dict" \in DOMAIN x
JsonDumps(v) == [json |-> v]

\* name in items
HasKey(items, name) == \E i \in DOMAIN items : items[i][1] = name

\* items[name]
Get(items, name) == items[CHOOSE i \in DOMAIN items : items[i][1] = name][2]

RECURSIVE flatten_record(_, _), RecordItems(_, _, _)
\* lines 100-105: the loop over d.items(), from its i-th item on
RecordItems(d, parent_key, i) ==
    IF i > Len(d) THEN <<>>
    ELSE LET k == d[i][1]
             v == d[i][2]
             new_key == flatten_key(k, parent_key)
         IN  (IF IsDict(v) THEN flatten_record(v.dict, parent_key \o <<k>>)
              ELSE <<<<new_key, IF IsList(v) THEN JsonDumps(v) ELSE v>>>>)
               \o RecordItems(d, parent_key, i + 1)

\* lines 98-106
flatten_record(d, parent_key) == DictItems(RecordItems(d, parent_key, 1))

\* lines 190-197: the fields of the line, in the order of self.flatten_schema,
\* before ','.join; "" is the empty field
CsvFields(flatten, columns) ==
    [i \in DOMAIN columns |->
        LET name == columns[i][1]
        IN  IF HasKey(flatten, name) /\ Get(flatten, name) # None
            THEN JsonDumps(Get(flatten, name)) ELSE Str("")]

(***************************************************************************)
(* flatten_key as a process: the inputs it is called with, and its while   *)
(* loop one iteration at a time.                                           *)
(***************************************************************************)
MaxRawLen == 3
MaxDepth == 22

RawAlphabet == {"a", "A", "B", "_", "1"}

\* every raw name of at most MaxRawLen characters
RawNames == UNION {[1..n -> RawAlphabet] : n \in 1..MaxRawLen}

LongLens == {20, 30, 31, 59, 60, 61, 62, 63, 64}

\* long raw names: one lower-case word, digits only, camel-cased words,
\* an acronym followed by a word
LongNames ==
    {Rep("a", n) : n \in LongLens}
      \cup {Rep("1", n) : n \in LongLens}
      \cup {Flat([i \in 1..n |-> <<"A", "b">>]) : n \in {10, 15, 16, 31, 32}}
      \cup {<<"A", "B", "C", "_", "X", "a">> \o Rep("c", n) : n \in {10, 56, 57}}

\* deep paths of one-letter names
DeepPaths == {[i \in 1..d |-> <<"a">>] : d \in 1..MaxDepth}

KeyPaths ==
    {<<n>> : n \in RawNames \cup LongNames}
      \cup {<<m, n>> : m \in LongNames, n \in LongNames}
      \cup {<<<<"x">>, m, n>> : m \in LongNames, n \in LongNames}
      \cup DeepPaths

keyVars == <<full_key, inflected_key, reducer_index, ident>>

typeVars == <<descriptor, storage_type>>

\* the variables of a part of the program that a behaviour does not run
KeyIdle == full_key = <<>> /\ inflected_key = <<>> /\ reducer_index = 0 /\ ident = <<>>
TypeIdle == descriptor = [keys |-> <<>>] /\ storage_type = "None"
SchemaIdle ==
    /\ stream_schema_message = [stream |-> "users", schema |-> [properties |-> <<>>], key_properties |-> <<>>]
    /\ self_flatten_schema = <<>>
    /\ exception = "None"

schemaVars == <<stream_schema_message, self_flatten_schema, exception>>

RecordIdle == record_arg = <<>> /\ flat_record = <<>> /\ csv_line = <<>>

recordVars == <<record_arg, flat_record, csv_line>>

SyncIdle ==
    /\ tables = {} /\ table_columns = {} /\ statements = <<>>
    /\ columns_dict = <<>> /\ columns_to_add = <<>> /\ columns_to_replace = <<>>
    /\ sync_runs = 0

syncVars == <<tables, table_columns, statements, columns_dict, columns_to_add,
              columns_to_replace, sync_runs>>

\* no temp table in the session
NoTempTable == [exists |-> FALSE, rows |-> EmptyBag]

LoadIdle ==
    /\ table_rows = EmptyBag /\ temp_table = NoTempTable /\ committed_rows = <<>>
    /\ file_rows = <<>> /\ rejected_count = 0

loadVars == <<table_rows, temp_table, committed_rows, file_rows, rejected_count>>

SessionIdle == table_primary_key = <<>> /\ loads = 0

sessionVars == <<table_primary_key, loads>>

InitKey ==
    /\ mode = "flatten_key"
    /\ pc = "call"
    /\ full_key \in KeyPaths
    /\ inflected_key = <<>>
    /\ reducer_index = 0
    /\ ident = <<>>
    /\ TypeIdle /\ SchemaIdle /\ RecordIdle /\ SyncIdle /\ LoadIdle /\ SessionIdle

\* lines 52-54
KeyInflect ==
    /\ mode = "flatten_key" /\ pc = "call"
    /\ inflected_key' = InflectAll(full_key)
    /\ reducer_index' = 0
    /\ pc' = "loop"
    /\ UNCHANGED <<mode, full_key, ident, typeVars, schemaVars, recordVars, syncVars, loadVars, sessionVars>>

\* lines 55-59: one iteration of the while loop
KeyReduce ==
    /\ mode = "flatten_key" /\ pc = "loop"
    /\ MustReduce(inflected_key, reducer_index)
    /\ inflected_key' = [inflected_key EXCEPT
            ![reducer_index + 1] = ReducedSegment(inflected_key[reducer_index + 1])]
    /\ reducer_index' = reducer_index + 1
    /\ UNCHANGED <<mode, pc, full_key, ident, typeVars, schemaVars, recordVars, syncVars, loadVars, sessionVars>>

\* line 61
KeyReturn ==
    /\ mode = "flatten_key" /\ pc = "loop"
    /\ ~MustReduce(inflected_key, reducer_index)
    /\ ident' = Join(SEP, inflected_key)
    /\ pc' = "done"
    /\ UNCHANGED <<mode, full_key, inflected_key, reducer_index, typeVars, schemaVars, recordVars, syncVars, loadVars, sessionVars>>

NextKey == KeyInflect \/ KeyReduce \/ KeyReturn

SpecKey == InitKey /\ [][NextKey]_vars

\* the stepped loop and the operator flatten_schema uses agree
KeyLoopAgrees ==
    (mode = "flatten_key" /\ pc = "done") =>
        ident = flatten_key(full_key[Len(full_key)], SubSeq(full_key, 1, Len(full_key) - 1))

\* C5: whatever the path, the identifier flatten_key returns is at most
\* MaxIdentLen (63) characters long.
C5_LengthBound ==
    (mode = "flatten_key" /\ pc = "done") => Len(ident) <= MaxIdentLen

(***************************************************************************)
(* column_type as a process: called on one descriptor.                     *)
(***************************************************************************)
MaxTypeList == 2

\* the JSON Schema type names, and one name that is none of them
TypeNames ==
    {"null", "object", "array", "number", "integer", "boolean", "string", "geo"}

TypeValues ==
    {Str(t) : t \in TypeNames}
      \cup {List(l) : l \in UNION {[1..n -> TypeNames] : n \in 0..MaxTypeList}}

Formats == {"date-time", "date"}

Descriptors ==
    {[keys |-> <<"type">>, type |-> t] : t \in TypeValues}
      \cup {[keys |-> <<"type", "format">>, type |-> t, format |-> f] :
                t \in TypeValues, f \in Formats}
      \cup {[keys |-> <<"format">>, format |-> f] : f \in Formats}
      \cup {[keys |-> <<"description">>, description |-> Str("d")]}

InitType ==
    /\ mode = "column_type"
    /\ pc = "call"
    /\ descriptor \in Descriptors
    /\ storage_type = "None"
    /\ KeyIdle /\ SchemaIdle /\ RecordIdle /\ SyncIdle /\ LoadIdle /\ SessionIdle

\* lines 19-34, a 'type' key being there
ColumnTypeReturn ==
    /\ mode = "column_type" /\ pc = "call"
    /\ column_type(descriptor) # "KeyError"
    /\ storage_type' = column_type(descriptor)
    /\ pc' = "done"
    /\ UNCHANGED <<mode, descriptor, keyVars, schemaVars, recordVars, syncVars, loadVars, sessionVars>>

\* line 19 without a 'type' key
ColumnTypeRaise ==
    /\ mode = "column_type" /\ pc = "call"
    /\ column_type(descriptor) = "KeyError"
    /\ pc' = "raised"
    /\ UNCHANGED <<mode, descriptor, storage_type, keyVars, schemaVars, recordVars, syncVars, loadVars, sessionVars>>

NextType == ColumnTypeReturn \/ ColumnTypeRaise

SpecType == InitType /\ [][NextType]_vars

\* "type includes x"; a descriptor without type information includes nothing
C9_Includes(d, x) == Has(d, "type") /\ In(x, d.type)

\* the ordered table of the claim
C9_Table(d) ==
    IF C9_Includes(d, "object") \/ C9_Includes(d, "array") THEN "jsonb"
    ELSE IF Has(d, "format") /\ d.format = "date-time"
         THEN "timestamp without time zone"
    ELSE IF C9_Includes(d, "number") THEN "numeric"
    ELSE IF C9_Includes(d, "integer") /\ C9_Includes(d, "string")
         THEN "character varying"
    ELSE IF C9_Includes(d, "integer") THEN "bigint"
    ELSE IF C9_Includes(d, "boolean") THEN "boolean"
    ELSE "character varying"

\* C9: column_type is total: called on any descriptor it returns, and what it
\* returns is the storage type of the first matching row of the table; with
\* unknown or missing type information that is the text type.
C9_TypeMapping ==
    (mode = "column_type" /\ pc # "call") =>
        /\ pc = "done"
        /\ storage_type = C9_Table(descriptor)

\* the part of C9 that the code keeps: on every descriptor with a 'type' key,
\* known or not, column_type returns the table's type
TypeMappingWithType ==
    (mode = "column_type" /\ pc # "call" /\ Has(descriptor, "type")) =>
        /\ pc = "done"
        /\ storage_type = C9_Table(descriptor)

(***************************************************************************)
(* DbSync.__init__: the session is built from a SCHEMA message, which      *)
(* flattens its schema.                                                    *)
(***************************************************************************)
MaxDefinitions == 3
MaxBranches == 3

\* property names: "a_B" and "a__b" inflect to a__b, as the path a.b and the
\* path a.B do
TopNames == {<<"a">>, <<"a", "_", "B">>, <<"a", "_", "_", "b">>}
NestedNames == {<<"b">>, <<"B">>}

TypedLeaf(t) == [keys |-> <<"type">>, type |-> t]
AnyOf(branches) == [keys |-> <<"anyOf">>, anyOf |-> List(branches)]
DescribedAnyOf(branches) ==
    [keys |-> <<"description", "anyOf">>, description |-> Str("d"),
     anyOf |-> List(branches)]
ObjectDefinition(properties) ==
    [keys |-> <<"type", "properties">>, type |-> Str("object"),
     properties |-> properties]
EmptyDefinition == [keys |-> <<>>]
UnsupportedDefinition == [keys |-> <<"description">>, description |-> Str("d")]

\* the definitions without properties of their own that schemas are built of
LeafDefinitions ==
    { TypedLeaf(Str("string")),
      TypedLeaf(List(<<"null", "integer">>)),
      EmptyDefinition,
      UnsupportedDefinition,
      AnyOf(<<NULL_TYPE, TypedLeaf(Str("string"))>>),
      AnyOf(<<NULL_TYPE>>),
      AnyOf(<<NULL_TYPE, TypedLeaf(Str("object"))>>),
      TypedLeaf(Str("array")) }

\* the branches of the nullable-union shapes
Branches ==
    { NULL_TYPE,
      TypedLeaf(Str("string")),
      TypedLeaf(Str("object")),
      TypedLeaf(List(<<"null", "integer">>)),
      [keys |-> <<"format">>, format |-> "date-time"] }

AnyOfDefinitions ==
    LET lists == UNION {[1..n -> Branches] : n \in 0..MaxBranches}
    IN  {AnyOf(l) : l \in lists} \cup {DescribedAnyOf(l) : l \in lists}

RECURSIVE DefinitionCount(_)
\* the number of property definitions in a properties dict, nested ones included
DefinitionCount(properties) ==
    IF properties = <<>> THEN 0
    ELSE LET v == properties[1][2]
         IN  1 + (IF Has(v, "properties") THEN DefinitionCount(v.properties) ELSE 0)
               + DefinitionCount(Tail(properties))

RECURSIVE PropertyDicts(_, _)
\* every properties dict of at most n definitions, nested ones included, its
\* own properties named from names and the nested ones from NestedNames
PropertyDicts(n, names) ==
    IF n = 0 THEN {<<>>}
    ELSE LET nested == PropertyDicts(n - 1, NestedNames)
             others == PropertyDicts(n - 1, names)
             definitions ==
                 LeafDefinitions \cup {ObjectDefinition(ps) : ps \in nested}
             sized == {<<v, DefinitionCount(<<<<<<>>, v>>>>)>> : v \in definitions}
             rests == {<<r, DefinitionCount(r)>> : r \in others}
         IN  {<<>>} \cup
             { <<<<k, vs[1]>>>> \o rs[1] :
                 <<k, vs, rs>> \in
                     {x \in names \X sized \X rests :
                         /\ x[2][2] + x[3][2] <= n
                         /\ \A i \in DOMAIN x[3][1] : x[3][1][i][1] # x[1]} }

Schemas ==
    {[properties |-> ps] : ps \in PropertyDicts(MaxDefinitions, TopNames)}
      \cup {[properties |-> <<<<k, v>>>>] : k \in {<<"a">>}, v \in AnyOfDefinitions}

InitSchema ==
    /\ mode = "DbSync"
    /\ pc = "new"
    /\ stream_schema_message \in
          {[stream |-> "users", schema |-> d, key_properties |-> <<>>] : d \in Schemas}
    /\ self_flatten_schema = <<>>
    /\ exception = "None"
    /\ KeyIdle /\ TypeIdle /\ RecordIdle /\ SyncIdle /\ LoadIdle /\ SessionIdle

\* lines 117-122, flatten_schema returning
DbSyncInit ==
    /\ mode = "DbSync" /\ pc = "new"
    /\ LET flat == flatten_schema(stream_schema_message.schema, <<>>)
       IN  /\ flat.raised = "None"
           /\ self_flatten_schema' = flat.items
    /\ pc' = "constructed"
    /\ UNCHANGED <<mode, stream_schema_message, exception, keyVars, typeVars, recordVars, syncVars, loadVars, sessionVars>>

\* line 121, flatten_schema raising: no session is built
DbSyncInitRaise ==
    /\ mode = "DbSync" /\ pc = "new"
    /\ LET flat == flatten_schema(stream_schema_message.schema, <<>>)
       IN  /\ flat.raised # "None"
           /\ exception' = flat.raised
    /\ pc' = "raised"
    /\ UNCHANGED <<mode, stream_schema_message, self_flatten_schema, keyVars, typeVars, recordVars, syncVars, loadVars, sessionVars>>

NextSchema == DbSyncInit \/ DbSyncInitRaise

SpecSchema == InitSchema /\ [][NextSchema]_vars

(***************************************************************************)
(* The schema tree as the claims speak of it: its properties by path.      *)
(***************************************************************************)
\* a property of plain object type: flatten_schema descends into it
IsObjectProperty(v) == Has(v, "type") /\ In("object", v.type)

RECURSIVE PropertyNodes(_, _)
\* every property of the tree as <<path, definition>>
PropertyNodes(properties, parent_key) ==
    UNION { {<<parent_key \o <<properties[i][1]>>, properties[i][2]>>}
              \cup (IF IsObjectProperty(properties[i][2])
                    THEN PropertyNodes(properties[i][2].properties,
                                       parent_key \o <<properties[i][1]>>)
                    ELSE {}) :
            i \in DOMAIN properties }

SchemaNodes == PropertyNodes(stream_schema_message.schema.properties, <<>>)

\* the properties without properties of their own
LeafNodes == {n \in SchemaNodes : ~IsObjectProperty(n[2])}

\* the leaves that stand for a column: an empty definition stands for none
ColumnNodes == {n \in LeafNodes : n[2].keys # <<>>}

PathIdent(path) == flatten_key(path[Len(path)], SubSeq(path, 1, Len(path) - 1))

\* the descriptor a leaf gives its column: a nullable union gives its non-null
\* branch, its type made a list with the null marker
ColumnDescriptor(v) ==
    IF Has(v, "type") THEN v
    ELSE LET branch == (CHOOSE x \in Range(v.anyOf.list) : x # NULL_TYPE)
         IN  IF IsList(branch.type) THEN branch
             ELSE [branch EXCEPT !.type = List(<<"null", branch.type.str>>)]

Constructed == mode = "DbSync" /\ pc = "constructed"
Finished == mode = "DbSync" /\ pc # "new"

\* two distinct leaf paths flatten to one identifier
Collides ==
    \E m \in ColumnNodes, n \in ColumnNodes :
        m[1] # n[1] /\ PathIdent(m[1]) = PathIdent(n[1])

\* C6: a schema in which two distinct property paths flatten to one identifier
\* makes flatten_schema raise SchemaError (ValueError); it is never returned
\* as a FlattenedSchema.
C6_DuplicateDetection ==
    (Finished /\ Collides) => (pc = "raised" /\ exception = "ValueError")

\* the part of C6 that the code keeps: no FlattenedSchema is returned for a
\* schema with colliding leaf paths
CollisionNeverReturned == Constructed => ~Collides

\* C7 as stated: every leaf property of the tree is in the FlattenedSchema
\* exactly once, and no column is of object type.
C7_CompletenessAsStated ==
    Constructed =>
        /\ \A n \in LeafNodes :
              Cardinality({i \in DOMAIN self_flatten_schema :
                              self_flatten_schema[i][1] = PathIdent(n[1])}) = 1
        /\ \A i \in DOMAIN self_flatten_schema :
              ~In("object", self_flatten_schema[i][2].type)

\* C7 amended: when flatten_schema returns, the FlattenedSchema holds one
\* column per non-empty leaf property (plain typed, or nullable union), named
\* by flatten_key of its path and carrying its descriptor, and nothing else:
\* no column for an empty definition and none for a property of plain object
\* type.  A nullable union around an object type is a leaf and is a column.
C7_Completeness ==
    Constructed =>
        /\ Len(self_flatten_schema) = Cardinality(ColumnNodes)
        /\ \A n \in ColumnNodes :
              Cardinality({i \in DOMAIN self_flatten_schema :
                              /\ self_flatten_schema[i][1] = PathIdent(n[1])
                              /\ self_flatten_schema[i][2] = ColumnDescriptor(n[2])}) = 1

\* a schema with a nested leaf, an empty definition and a nullable object
C7_Witness ==
    /\ Constructed
    /\ \E n \in ColumnNodes : Len(n[1]) = 2 /\ In("object", ColumnDescriptor(n[2]).type)
    /\ \E n \in LeafNodes : n[2].keys = <<>>
    /\ Len(self_flatten_schema) >= 1

\* the only property of the schema, when it is of the nullable-union shape
UnionProperty ==
    LET properties == stream_schema_message.schema.properties
    IN  IF /\ Len(properties) = 1
           /\ ~Has(properties[1][2], "type") /\ Has(properties[1][2], "anyOf")
        THEN <<properties[1][2]>> ELSE <<>>

NonNullBranches(v) == Len(SelectSeq(v.anyOf.list, LAMBDA x : x # NULL_TYPE))
HasNullMarker(v) == NULL_TYPE \in Range(v.anyOf.list)

\* C8: a nullable-union property is accepted only with exactly one non-null
\* branch and the null marker; with more than one non-null branch or without
\* the null marker flatten_schema raises SchemaError (ValueError), and every
\* other shape ends in SchemaError too, never in another exception.
C8_NullableUnion ==
    (Finished /\ UnionProperty # <<>>) =>
        LET v == UnionProperty[1]
        IN  /\ pc = "constructed" => (NonNullBranches(v) = 1 /\ HasNullMarker(v))
            /\ pc = "raised" => exception = "ValueError"
            /\ (NonNullBranches(v) > 1 \/ ~HasNullMarker(v)) => pc = "raised"

(***************************************************************************)
(* record_to_csv_line: a built session turns records into CSV lines.       *)
(***************************************************************************)
RECURSIVE RecordsOf(_)
\* the records a properties dict describes: each property absent, or present
\* with a value of its type (a nested record for an object type)
RecordsOf(properties) ==
    IF properties = <<>> THEN {<<>>}
    ELSE LET k == properties[1][1]
             v == properties[1][2]
             rest == RecordsOf(Tail(properties))
             type == ColumnDescriptor(v).type
             values ==
                 IF v.keys = <<>> THEN {}
                 ELSE IF IsObjectProperty(v)
                      THEN {Dict(r) : r \in RecordsOf(v.properties)}
                 ELSE IF In("object", type) THEN {Dict(<<<<<<"b">>, Num(1)>>>>), None}
                 ELSE IF In("array", type) THEN {List(<<Num(1)>>), None}
                 ELSE IF In("integer", type) THEN {Num(1), None}
                 ELSE {Str("s"), None}
         IN  rest \cup UNION {{<<<<k, x>>>> \o r : r \in rest} : x \in values}

InitRecord ==
    /\ mode = "DbSync"
    /\ pc = "new"
    /\ stream_schema_message \in
          {[stream |-> "users", schema |-> [properties |-> ps], key_properties |-> <<>>] :
              ps \in PropertyDicts(MaxDefinitions, TopNames)}
    /\ self_flatten_schema = <<>>
    /\ exception = "None"
    /\ KeyIdle /\ TypeIdle /\ RecordIdle /\ SyncIdle /\ LoadIdle /\ SessionIdle

\* lines 190-197, on any record the schema describes
RecordToCsvLine ==
    /\ mode = "DbSync" /\ pc \in {"constructed", "line"}
    /\ \E record \in RecordsOf(stream_schema_message.schema.properties) :
          LET flatten == flatten_record(record, <<>>)
          IN  /\ record_arg' = record
              /\ flat_record' = flatten
              /\ csv_line' = CsvFields(flatten, self_flatten_schema)
    /\ pc' = "line"
    /\ UNCHANGED <<mode, schemaVars, keyVars, typeVars, syncVars, loadVars, sessionVars>>

NextRecord == DbSyncInit \/ DbSyncInitRaise \/ RecordToCsvLine

SpecRecord == InitRecord /\ [][NextRecord]_vars

RECURSIVE RecordLeaves(_, _)
\* the leaf values of a record as <<path, value>>
RecordLeaves(d, parent_key) ==
    UNION { IF IsDict(d[i][2])
            THEN RecordLeaves(d[i][2].dict, parent_key \o <<d[i][1]>>)
            ELSE {<<parent_key \o <<d[i][1]>>, d[i][2]>>} :
            i \in DOMAIN d }

\* the place of the column of a leaf path in the canonical column order
ColumnOf(path) ==
    {i \in DOMAIN self_flatten_schema :
        /\ self_flatten_schema[i][1] = PathIdent(path)
        /\ \E n \in ColumnNodes : n[1] = path}

\* what a leaf value is flattened to: a list to its JSON text, else itself
Flattened(v) == IF IsList(v) THEN JsonDumps(v) ELSE v

\* C10: every leaf value of the record is in the flattened record under the
\* identifier flatten_schema gives its path, and is what the line holds at that
\* column's place; a column whose path the record lacks has no entry in the
\* flattened record.
C10_RoundTrip ==
    (mode = "DbSync" /\ pc = "line") =>
        /\ \A leaf \in RecordLeaves(record_arg, <<>>) :
              /\ ColumnOf(leaf[1]) # {}
              /\ \A i \in ColumnOf(leaf[1]) :
                    /\ HasKey(flat_record, self_flatten_schema[i][1])
                    /\ Get(flat_record, self_flatten_schema[i][1]) = Flattened(leaf[2])
                    /\ csv_line[i] = IF leaf[2] = None THEN Str("")
                                     ELSE JsonDumps(Flattened(leaf[2]))
        /\ \A n \in ColumnNodes :
              (\A leaf \in RecordLeaves(record_arg, <<>>) : leaf[1] # n[1])
                  => ~HasKey(flat_record, PathIdent(n[1]))

\* the record gives no column a nested record as its value
NoObjectValues ==
    \A leaf \in RecordLeaves(record_arg, <<>>) : \E n \in ColumnNodes : n[1] = leaf[1]

\* the part of C10 that the code keeps: records whose values for the columns
\* are scalars, None or lists
RoundTripWithoutObjectValues ==
    (mode = "DbSync" /\ pc = "line" /\ NoObjectValues) =>
        /\ \A leaf \in RecordLeaves(record_arg, <<>>) :
              \A i \in ColumnOf(leaf[1]) :
                    /\ HasKey(flat_record, self_flatten_schema[i][1])
                    /\ Get(flat_record, self_flatten_schema[i][1]) = Flattened(leaf[2])
                    /\ csv_line[i] = IF leaf[2] = None THEN Str("")
                                     ELSE JsonDumps(Flattened(leaf[2]))
        /\ \A n \in ColumnNodes :
              (\A leaf \in RecordLeaves(record_arg, <<>>) : leaf[1] # n[1])
                  => ~HasKey(flat_record, PathIdent(n[1]))


(***************************************************************************)
(* sync_table and update_columns against the catalog of the database.      *)
(* The catalog holds what this program's statements leave in it: names in  *)
(* lower case, one table per stream.  A column of the catalog is a row of  *)
(* information_schema.columns and the mark original, TRUE while it is the  *)
(* column, with its data, that was there before the session.               *)
(***************************************************************************)
MaxColumns == 2
MaxSyncRuns == 2

\* str.lower() on the stream names and type names that occur
LowerOf(s) ==
    CASE s = "Users" -> "users"
      [] s = "BIGINT" -> "bigint"
      [] s = "CHARACTER VARYING" -> "character varying"
      [] s = "JSONB" -> "jsonb"
      [] OTHER -> s

\* the identifier inside the quotes
Unquoted(quoted) == SubSeq(quoted, 2, Len(quoted) - 1)

\* no key column at all
no_primary_column_names(message) == <<>>

\* lines 109-113
primary_column_names(message) ==
    [i \in 1..Len(message.key_properties) |->
        safe_column_name(inflect_column_name(message.key_properties[i]))]

\* lines 162-166; the schema of the connection is the same throughout
table_name(name, is_temporary) ==
    IF is_temporary THEN [temp |-> name] ELSE [schema |-> "public", table |-> name]

\* lines 283-284
column_names == [i \in 1..Len(self_flatten_schema) |->
                    safe_column_name(self_flatten_schema[i][1])]

\* lines 286-303: the statement as its parts
create_table_query(is_temporary) ==
    [op |-> "CREATE TABLE",
     temporary |-> is_temporary,
     table |-> table_name(stream_schema_message.stream, is_temporary),
     columns |-> [i \in 1..Len(self_flatten_schema) |->
                    column_clause(self_flatten_schema[i][1], self_flatten_schema[i][2])],
     primary_key |-> primary_column_names(stream_schema_message)]

\* lines 358-359 and 363-364: the statements as their parts
AddColumnStatement(column, stream) ==
    [op |-> "ADD COLUMN", table |-> table_name(stream, FALSE), column |-> column]
DropColumnStatement(column_name, stream) ==
    [op |-> "DROP COLUMN", table |-> table_name(stream, FALSE), column_name |-> column_name]

\* lines 368-371
found_tables == {table \in tables : LowerOf(table) = LowerOf(stream_schema_message.stream)}

\* lines 321-324: one table per stream, so the rows are the table's columns
get_table_columns == table_columns

\* line 330: the rows by lower-case name
ColumnsDict(columns) ==
    [name \in {Lower(c.column_name) : c \in columns} |->
        CHOOSE c \in columns : Lower(c.column_name) = name]

\* lines 332-339
NoColumnsToAdd(items, dict) == <<>>

ColumnsToAdd(items, dict) ==
    LET Lacking(item) == Lower(item[1]) \notin DOMAIN dict
        lacking == SelectSeq(items, Lacking)
    IN  [i \in 1..Len(lacking) |-> column_clause(lacking[i][1], lacking[i][2])]

\* line 351
DataTypeDiffersExactly(data_type, mapped) == data_type # mapped

DataTypeDiffers(data_type, mapped) == LowerOf(data_type) # LowerOf(mapped)

NoColumnsToReplace(items, dict) == <<>>

\* lines 344-352
ColumnsToReplace(items, dict) ==
    LET Differing(item) ==
            /\ Lower(item[1]) \in DOMAIN dict
            /\ DataTypeDiffers(dict[Lower(item[1])].data_type, column_type(item[2]))
        differing == SelectSeq(items, Differing)
    IN  [i \in 1..Len(differing) |->
            <<safe_column_name(differing[i][1]),
              column_clause(differing[i][1], differing[i][2])>>]

\* the database running ALTER TABLE ... ADD COLUMN and DROP COLUMN
Added(columns, column) ==
    columns \cup {[column_name |-> Unquoted(column[1]), data_type |-> column[2],
                   original |-> FALSE]}
Dropped(columns, column_name) ==
    {c \in columns : c.column_name # Unquoted(column_name)}


\* the property names of the streams that are synchronized, in sorted order
SyncNames == << <<"a">>, <<"a", "_", "B">>, <<"a", "_", "_", "b">>, <<"b">> >>

\* their definitions: three that become columns, two that flatten_schema refuses
SyncDefinitions ==
    { TypedLeaf(Str("string")),
      TypedLeaf(List(<<"null", "integer">>)),
      TypedLeaf(Str("array")),
      AnyOf(<<NULL_TYPE>>),
      UnsupportedDefinition }

RECURSIVE SyncProperties(_, _)
\* the properties dicts of at most n of the names
SyncProperties(names, n) ==
    IF names = <<>> \/ n = 0 THEN {<<>>}
    ELSE SyncProperties(Tail(names), n)
           \cup { <<<<Head(names), v>>>> \o rest :
                    v \in SyncDefinitions, rest \in SyncProperties(Tail(names), n - 1) }

SyncMessages ==
    { [stream |-> stream, schema |-> [properties |-> ps], key_properties |-> key] :
        <<stream, ps, key>> \in
            { x \in {"users", "Users"} \X SyncProperties(SyncNames, MaxColumns)
                      \X ({<<>>} \cup {<<k>> : k \in Range(SyncNames)}) :
                x[3] = <<>> \/ (x[2] # <<>> /\ x[3] = <<x[2][1][1]>>) } }

\* a type the catalog can hold for a column that the schema maps otherwise
OtherType(mapped) == IF mapped = "bigint" THEN "character varying" ELSE "bigint"

UpperOf(s) ==
    CASE s = "bigint" -> "BIGINT"
      [] s = "character varying" -> "CHARACTER VARYING"
      [] s = "jsonb" -> "JSONB"
      [] OTHER -> s

\* a column the schema does not have
ForeignColumn == [column_name |-> <<"z">>, data_type |-> "text", original |-> TRUE]

\* the columns a table can have where the schema has the column item: none,
\* or one of the mapped type, of that type in upper case, or of another type
CatalogColumnsOf(item) ==
    LET mapped == column_type(item[2])
    IN  {{}} \cup
        { {[column_name |-> item[1], data_type |-> t, original |-> TRUE]} :
            t \in {mapped, UpperOf(mapped), OtherType(mapped)} }

RECURSIVE CatalogColumns(_)
CatalogColumns(items) ==
    IF items = <<>> THEN {{}, {ForeignColumn}}
    ELSE { one \cup rest :
             one \in CatalogColumnsOf(Head(items)), rest \in CatalogColumns(Tail(items)) }

\* the catalogs a session on the message can meet: no table of the stream, or
\* its table with any of these columns
Catalogs(message) ==
    LET flat == flatten_schema(message.schema, <<>>)
        items == IF flat.raised = "None" THEN flat.items ELSE <<>>
    IN  {[tables |-> ts, columns |-> {}] : ts \in {{}, {"orders"}}}
          \cup {[tables |-> {"orders", "users"}, columns |-> cs] : cs \in CatalogColumns(items)}

InitSync ==
    /\ mode = "DbSync"
    /\ pc = "new"
    /\ stream_schema_message \in SyncMessages
    /\ self_flatten_schema = <<>>
    /\ exception = "None"
    /\ \E catalog \in Catalogs(stream_schema_message) :
          /\ tables = catalog.tables
          /\ table_columns = catalog.columns
    /\ statements = <<>>
    /\ columns_dict = <<>> /\ columns_to_add = <<>> /\ columns_to_replace = <<>>
    /\ sync_runs = 0
    /\ KeyIdle /\ TypeIdle /\ RecordIdle /\ LoadIdle /\ SessionIdle

\* lines 368-375: no table of the stream's name, CREATE TABLE; the unquoted
\* name is stored in lower case
SyncTableCreate ==
    /\ mode = "DbSync" /\ pc \in {"constructed", "created", "updated"}
    /\ sync_runs < MaxSyncRuns
    /\ found_tables = {}
    /\ statements' = <<create_table_query(FALSE)>>
    /\ tables' = tables \cup {LowerOf(stream_schema_message.stream)}
    /\ table_columns' =
          {[column_name |-> self_flatten_schema[i][1],
            data_type |-> column_type(self_flatten_schema[i][2]),
            original |-> FALSE] : i \in DOMAIN self_flatten_schema}
    /\ table_primary_key' = primary_column_names(stream_schema_message)
    /\ sync_runs' = sync_runs + 1
    /\ pc' = "created"
    /\ UNCHANGED <<mode, columns_dict, columns_to_add, columns_to_replace, loads,
                   schemaVars, keyVars, typeVars, recordVars, loadVars>>

\* lines 376-378 and 326-339: the table is there, update_columns starts
UpdateColumns ==
    /\ mode = "DbSync" /\ pc \in {"constructed", "created", "updated"}
    /\ sync_runs < MaxSyncRuns
    /\ found_tables # {}
    /\ statements' = <<>>
    /\ columns_dict' = ColumnsDict(get_table_columns)
    /\ columns_to_add' = ColumnsToAdd(self_flatten_schema, columns_dict')
    /\ columns_to_replace' = <<>>
    /\ sync_runs' = sync_runs + 1
    /\ pc' = "add"
    /\ UNCHANGED <<mode, tables, table_columns,
                   schemaVars, keyVars, typeVars, recordVars, loadVars, sessionVars>>

\* lines 341-342 and 358-361: one iteration of the first loop
AddColumn ==
    /\ mode = "DbSync" /\ pc = "add"
    /\ columns_to_add # <<>>
    /\ statements' = Append(statements,
            AddColumnStatement(Head(columns_to_add), stream_schema_message.stream))
    /\ table_columns' = Added(table_columns, Head(columns_to_add))
    /\ columns_to_add' = Tail(columns_to_add)
    /\ UNCHANGED <<mode, pc, tables, columns_dict, columns_to_replace, sync_runs,
                   schemaVars, keyVars, typeVars, recordVars, loadVars, sessionVars>>

\* lines 344-352, the first loop being over
ReplaceColumns ==
    /\ mode = "DbSync" /\ pc = "add"
    /\ columns_to_add = <<>>
    /\ columns_to_replace' = ColumnsToReplace(self_flatten_schema, columns_dict)
    /\ pc' = "replace"
    /\ UNCHANGED <<mode, tables, table_columns, statements, columns_dict,
                   columns_to_add, sync_runs,
                   schemaVars, keyVars, typeVars, recordVars, loadVars, sessionVars>>

\* lines 354-355 and 363-366: the second loop, its DROP COLUMN
DropColumn ==
    /\ mode = "DbSync" /\ pc = "replace"
    /\ columns_to_replace # <<>>
    /\ statements' = Append(statements,
            DropColumnStatement(Head(columns_to_replace)[1], stream_schema_message.stream))
    /\ table_columns' = Dropped(table_columns, Head(columns_to_replace)[1])
    /\ pc' = "dropped"
    /\ UNCHANGED <<mode, tables, columns_dict, columns_to_add, columns_to_replace,
                   sync_runs, schemaVars, keyVars, typeVars, recordVars, loadVars, sessionVars>>

\* lines 356 and 358-361: the second loop, its ADD COLUMN
ReAddColumn ==
    /\ mode = "DbSync" /\ pc = "dropped"
    /\ statements' = Append(statements,
            AddColumnStatement(Head(columns_to_replace)[2], stream_schema_message.stream))
    /\ table_columns' = Added(table_columns, Head(columns_to_replace)[2])
    /\ columns_to_replace' = Tail(columns_to_replace)
    /\ pc' = "replace"
    /\ UNCHANGED <<mode, tables, columns_dict, columns_to_add, sync_runs,
                   schemaVars, keyVars, typeVars, recordVars, loadVars, sessionVars>>

\* line 354, the second loop being over: update_columns and sync_table return
UpdateColumnsReturn ==
    /\ mode = "DbSync" /\ pc = "replace"
    /\ columns_to_replace = <<>>
    /\ pc' = "updated"
    /\ UNCHANGED <<mode, tables, table_columns, statements, columns_dict,
                   columns_to_add, columns_to_replace, sync_runs,
                   schemaVars, keyVars, typeVars, recordVars, loadVars, sessionVars>>

NextSync ==
    \/ DbSyncInit \/ DbSyncInitRaise
    \/ SyncTableCreate \/ UpdateColumns \/ AddColumn \/ ReplaceColumns
    \/ DropColumn \/ ReAddColumn \/ UpdateColumnsReturn

SpecSync == InitSync /\ [][NextSync]_vars


\* the catalog columns update_columns found when the running call started
ColumnsAtStart == {columns_dict[name] : name \in DOMAIN columns_dict}

\* sync_table has returned from a table that was there
Updated == mode = "DbSync" /\ pc = "updated"

FlattenSchemaItems == {self_flatten_schema[i] : i \in DOMAIN self_flatten_schema}

\* the table found lacks the column of the schema item
TableLacks(item) == \A c \in ColumnsAtStart : Lower(c.column_name) # item[1]

\* the table found has the column of the schema item with another type
TableDiffers(item) ==
    \E c \in ColumnsAtStart :
        /\ Lower(c.column_name) = item[1]
        /\ LowerOf(c.data_type) # LowerOf(column_type(item[2]))

\* the positions of the issued statements of an operation that name a column
Issued(op, name) ==
    {i \in DOMAIN statements :
        /\ statements[i].op = op
        /\ IF op = "ADD COLUMN" THEN Unquoted(statements[i].column[1]) = name
           ELSE statements[i].op = "DROP COLUMN"
                /\ Unquoted(statements[i].column_name) = name}

\* C3: schema evolution, add.  When sync_table has run against an existing
\* table, every schema column the table lacked has been added by exactly one
\* ADD COLUMN carrying the type column_type maps, and has not been dropped;
\* every ADD COLUMN names a schema column the table lacked or (the case of C4)
\* had with another type; and every other column the table had, the ones the
\* schema does not have included, is still there as it was, with no statement
\* naming it.
C3_SchemaEvolutionAdd ==
    Updated =>
        /\ \A item \in FlattenSchemaItems :
              TableLacks(item) =>
                  /\ Cardinality(Issued("ADD COLUMN", item[1])) = 1
                  /\ Issued("DROP COLUMN", item[1]) = {}
                  /\ \A i \in Issued("ADD COLUMN", item[1]) :
                        statements[i] =
                            [op |-> "ADD COLUMN",
                             table |-> [schema |-> "public",
                                        table |-> stream_schema_message.stream],
                             column |-> <<safe_column_name(item[1]), column_type(item[2])>>]
                  /\ [column_name |-> item[1], data_type |-> column_type(item[2]),
                      original |-> FALSE] \in table_columns
        /\ \A i \in DOMAIN statements :
              statements[i].op = "ADD COLUMN" =>
                  \E item \in FlattenSchemaItems :
                      /\ item[1] = Unquoted(statements[i].column[1])
                      /\ TableLacks(item) \/ TableDiffers(item)
        /\ \A c \in ColumnsAtStart :
              (\A item \in FlattenSchemaItems :
                    Lower(c.column_name) = item[1] => ~TableDiffers(item)) =>
                  /\ c \in table_columns
                  /\ Issued("ADD COLUMN", c.column_name) = {}
                  /\ Issued("DROP COLUMN", c.column_name) = {}
        /\ Cardinality(table_columns) =
              Cardinality({c.column_name : c \in table_columns})

\* a run that added a lacking column beside a column of the schema it left
\* alone and a column the schema does not have
C3_Witness ==
    /\ Updated
    /\ \E item \in FlattenSchemaItems : TableLacks(item)
    /\ \E item \in FlattenSchemaItems : ~TableLacks(item) /\ ~TableDiffers(item)
    /\ ForeignColumn \in ColumnsAtStart
    /\ \E i \in DOMAIN statements : statements[i].op = "ADD COLUMN"

\* C4: schema evolution, replace.  When sync_table has run against an existing
\* table, every schema column the table had with a type that differs, case
\* ignored, from the type column_type maps has got one DROP COLUMN and, as the
\* next statement, one ADD COLUMN with the mapped type; at any moment every
\* DROP COLUMN issued names such a column and every ADD COLUMN for a column
\* the table had comes right after the DROP COLUMN of that column; no column
\* whose type matches is dropped.
C4_SchemaEvolutionReplace ==
    /\ Updated =>
          \A item \in FlattenSchemaItems :
              TableDiffers(item) =>
                  /\ Cardinality(Issued("DROP COLUMN", item[1])) = 1
                  /\ Cardinality(Issued("ADD COLUMN", item[1])) = 1
                  /\ \A i \in Issued("DROP COLUMN", item[1]) :
                        /\ i < Len(statements)
                        /\ statements[i + 1] =
                              [op |-> "ADD COLUMN",
                               table |-> [schema |-> "public",
                                          table |-> stream_schema_message.stream],
                               column |-> <<safe_column_name(item[1]), column_type(item[2])>>]
                  /\ [column_name |-> item[1], data_type |-> column_type(item[2]),
                      original |-> FALSE] \in table_columns
    /\ (mode = "DbSync" /\ pc \in {"add", "replace", "dropped", "updated"}) =>
          \A i \in DOMAIN statements :
              /\ statements[i].op = "DROP COLUMN" =>
                    \E item \in FlattenSchemaItems :
                        /\ item[1] = Unquoted(statements[i].column_name)
                        /\ TableDiffers(item)
              /\ (/\ statements[i].op = "ADD COLUMN"
                  /\ \E c \in ColumnsAtStart :
                        c.column_name = Unquoted(statements[i].column[1])) =>
                    /\ i > 1
                    /\ statements[i - 1].op = "DROP COLUMN"
                    /\ statements[i - 1].column_name = statements[i].column[1]

\* a run that replaced a column of another type beside a column whose type
\* matched in upper case
C4_Witness ==
    /\ Updated
    /\ \E item \in FlattenSchemaItems : TableDiffers(item)
    /\ \E c \in ColumnsAtStart :
          /\ c.data_type # LowerOf(c.data_type)
          /\ c \in table_columns
    /\ \E i \in DOMAIN statements : statements[i].op = "DROP COLUMN"

\* update_columns never adds a column the table has at that moment
AddMeetsNoColumn ==
    /\ (mode = "DbSync" /\ pc = "add" /\ columns_to_add # <<>>) =>
          \A c \in table_columns : c.column_name # Unquoted(Head(columns_to_add)[1])
    /\ (mode = "DbSync" /\ pc = "dropped") =>
          \A c \in table_columns : c.column_name # Unquoted(Head(columns_to_replace)[2][1])


(***************************************************************************)
(* load_csv against the rows of the database.  A row is the sequence of    *)
(* its values in the order of column_names, a table the bag of its rows.   *)
(* The statements of one load_csv run in one transaction on a connection   *)
(* of their own: an exception leaving the with block rolls it back, the    *)
(* end of the block commits it.                                            *)
(***************************************************************************)
MaxTableRows == 1
MaxBatchRows == 2

\* the position of a quoted name among the columns of the table
ColumnIndex(c) == CHOOSE i \in DOMAIN column_names : column_names[i] = c

\* lines 268-271, as SQL reads "s.c = t.c AND ...": a NULL equals nothing
FirstKeyColumnCondition(s, t) ==
    LET c == ColumnIndex(primary_column_names(stream_schema_message)[1])
    IN  s[c] # None /\ t[c] # None /\ s[c] = t[c]

primary_key_condition(s, t) ==
    \A i \in DOMAIN primary_column_names(stream_schema_message) :
        LET c == ColumnIndex(primary_column_names(stream_schema_message)[i])
        IN  s[c] # None /\ t[c] # None /\ s[c] = t[c]

RECURSIVE Copies(_, _)
\* the number of rows a bag holds of the rows in a set
Copies(rows, bag) ==
    IF rows = {} THEN 0
    ELSE LET r == CHOOSE r \in rows : TRUE
         IN  bag[r] + Copies(rows \ {r}, bag)

\* the rows of a file as a bag
BagOfRows(rows) ==
    [r \in Range(rows) |-> Cardinality({i \in DOMAIN rows : rows[i] = r})]

\* lines 254-266: UPDATE table SET every column = s.column FROM temp s WHERE
\* the keys are equal
update_from_temp_table(rows, temp) ==
    LET Matches(t) == {s \in BagToSet(temp) : primary_key_condition(s, t)}
        New(t) == IF Matches(t) = {} THEN t ELSE CHOOSE s \in Matches(t) : TRUE
    IN  [r \in {New(t) : t \in BagToSet(rows)} |->
            Copies({t \in BagToSet(rows) : New(t) = r}, rows)]

\* the table after inserting the rows of temp that the table does not hold
InsertUnlessPresent(rows, temp) ==
    rows (+) [s \in {s \in BagToSet(temp) : ~BagIn(s, rows)} |-> temp[s]]

\* lines 228-252: INSERT every staged row, or with key properties the staged
\* rows that the LEFT OUTER JOIN pairs with no row of the table
insert_from_temp_table(rows, temp) ==
    IF Len(stream_schema_message.key_properties) = 0
    THEN rows (+) temp
    ELSE rows (+) [s \in {s \in BagToSet(temp) :
                            \A t \in BagToSet(rows) : ~primary_key_condition(s, t)}
                    |-> temp[s]]

\* a value COPY can store in a column of the type
Fits(value, data_type) == value = None \/ data_type # "bigint" \/ "num" \in DOMAIN value

\* what COPY raises at the i-th row of the file: DataError for a value that
\* is not of its column's type, IntegrityError where the temp table has a
\* primary key and the row has a NULL in it or the key of an earlier row
CopyError(rows, i) ==
    IF \E c \in DOMAIN rows[i] :
          ~Fits(rows[i][c], column_type(self_flatten_schema[c][2]))
    THEN "DataError"
    ELSE IF /\ Len(stream_schema_message.key_properties) > 0
            /\ \/ \E k \in Range(primary_column_names(stream_schema_message)) :
                     rows[i][ColumnIndex(k)] = None
               \/ \E j \in 1..(i - 1) : primary_key_condition(rows[j], rows[i])
    THEN "IntegrityError"
    ELSE "None"

\* what COPY of the whole file raises: the error of the first row that has one
CopyExpertError(rows) ==
    LET failing == {i \in DOMAIN rows : CopyError(rows, i) # "None"}
    IN  IF failing = {} THEN "None"
        ELSE CopyError(rows, CHOOSE i \in failing : \A j \in failing : i <= j)

\* the rows a PRIMARY KEY over the columns at the positions refuses: a key
\* column NULL, or one key in two rows
BreaksPrimaryKey(rows, positions) ==
    /\ positions # {}
    /\ \E r \in BagToSet(rows) :
          \/ rows[r] > 1
          \/ \E k \in positions : r[k] = None
          \/ \E t \in BagToSet(rows) : t # r /\ \A k \in positions : t[k] = r[k]

\* the positions of the table's PRIMARY KEY columns
PrimaryKeyPositions == {ColumnIndex(k) : k \in Range(table_primary_key)}

\* line 206: an exception leaving the with block rolls the transaction back
NotRolledBack(rows, committed) == rows

RolledBack(rows, committed) == committed[Len(committed)]

\* the statements of load_csv as their parts
CopyStatement ==
    [op |-> "COPY", table |-> table_name(stream_schema_message.stream, TRUE),
     columns |-> column_names]
UpdateStatement ==
    [op |-> "UPDATE", table |-> table_name(stream_schema_message.stream, FALSE),
     set |-> column_names, from |-> table_name(stream_schema_message.stream, TRUE),
     where |-> primary_column_names(stream_schema_message)]
InsertStatement ==
    [op |-> "INSERT", table |-> table_name(stream_schema_message.stream, FALSE),
     columns |-> column_names, from |-> table_name(stream_schema_message.stream, TRUE),
     unmatched |-> primary_column_names(stream_schema_message)]
\* DROP TABLE naming the stream's table
drop_table ==
    [op |-> "DROP TABLE", table |-> table_name(stream_schema_message.stream, FALSE)]

\* lines 278-281
drop_temp_table ==
    [op |-> "DROP TABLE", table |-> table_name(stream_schema_message.stream, TRUE)]

\* the schema of the loaded stream: two integers and a string
LoadProperties ==
    << <<<<"a">>, TypedLeaf(List(<<"null", "integer">>))>>,
       <<<<"b">>, TypedLeaf(List(<<"null", "integer">>))>>,
       <<<<"x">>, TypedLeaf(List(<<"null", "string">>))>> >>

LoadMessages ==
    { [stream |-> "users", schema |-> [properties |-> LoadProperties],
       key_properties |-> key] :
        key \in {<<>>, << <<"a">> >>, << <<"a">>, <<"b">> >>} }

\* the rows of the table and of the files
KeyValues == {Num(1), Num(2)}
GoodRows == {<<a, b, x>> : a \in KeyValues, b \in KeyValues, x \in {Str("a"), Str("b")}}
NullRow == <<None, Num(1), Str("a")>>
IllTypedRow == <<Str("x"), Num(1), Str("a")>>

Tables ==
    {BagOfRows(rows) :
        rows \in UNION {[1..n -> GoodRows \cup {NullRow}] : n \in 0..MaxTableRows}}

Files == UNION {[1..n -> GoodRows \cup {NullRow, IllTypedRow}] : n \in 0..MaxBatchRows}

InitLoad ==
    /\ mode = "DbSync"
    /\ pc = "new"
    /\ stream_schema_message \in LoadMessages
    /\ self_flatten_schema = <<>>
    /\ exception = "None"
    /\ tables = {"users"}
    /\ table_columns =
          {[column_name |-> LoadProperties[i][1],
            data_type |-> column_type(LoadProperties[i][2]),
            original |-> TRUE] : i \in DOMAIN LoadProperties}
    /\ statements = <<>>
    /\ columns_dict = <<>> /\ columns_to_add = <<>> /\ columns_to_replace = <<>>
    /\ sync_runs = 0
    /\ table_rows \in Tables
    /\ committed_rows = <<table_rows>>
    /\ temp_table = NoTempTable
    /\ file_rows = <<>>
    /\ rejected_count = 0
    /\ SessionIdle
    /\ KeyIdle /\ TypeIdle /\ RecordIdle


\* lines 199-208: load_csv on one of the files; the transaction opens on the
\* table as committed, with the CREATE TEMP TABLE of create_table_query(True)
LoadCsvOn(files) ==
    /\ file_rows' \in files
    /\ statements' = <<create_table_query(TRUE)>>
    /\ temp_table' = [exists |-> TRUE, rows |-> EmptyBag]
    /\ committed_rows' = <<table_rows>>
    /\ loads' = loads + 1
    /\ pc' = "copy"
    /\ UNCHANGED <<mode, tables, table_columns, columns_dict, columns_to_add,
                   columns_to_replace, sync_runs, table_rows, table_primary_key,
                   rejected_count, schemaVars, keyVars, typeVars, recordVars>>

\* load_csv on any file, the first call of a session
LoadCsv ==
    /\ mode = "DbSync" /\ pc = "constructed"
    /\ LoadCsvOn(Files)

\* lines 209-217: COPY of the file into the temp table
CopyExpert ==
    /\ mode = "DbSync" /\ pc = "copy"
    /\ CopyExpertError(file_rows) = "None"
    /\ statements' = Append(statements, CopyStatement)
    /\ temp_table' = [exists |-> TRUE, rows |-> BagOfRows(file_rows)]
    /\ pc' = IF Len(stream_schema_message.key_properties) > 0 THEN "update" ELSE "insert"
    /\ UNCHANGED <<mode, tables, table_columns, columns_dict, columns_to_add,
                   columns_to_replace, sync_runs, table_rows, committed_rows,
                   file_rows, rejected_count,
                   schemaVars, keyVars, typeVars, recordVars, sessionVars>>

\* lines 214-217 raising DataError: the transaction is rolled back, and
\* lines 224-226 and 168-169 reject the file
CopyExpertDataError ==
    /\ mode = "DbSync" /\ pc = "copy"
    /\ CopyExpertError(file_rows) = "DataError"
    /\ statements' = Append(statements, CopyStatement)
    /\ temp_table' = NoTempTable
    /\ table_rows' = RolledBack(table_rows, committed_rows)
    /\ rejected_count' = rejected_count + 1
    /\ pc' = "rejected"
    /\ UNCHANGED <<mode, tables, table_columns, columns_dict, columns_to_add,
                   columns_to_replace, sync_runs, committed_rows, file_rows,
                   schemaVars, keyVars, typeVars, recordVars, sessionVars>>

\* lines 214-217 raising IntegrityError: the transaction is rolled back and
\* the exception, which line 224 does not catch, leaves load_csv
CopyExpertIntegrityError ==
    /\ mode = "DbSync" /\ pc = "copy"
    /\ CopyExpertError(file_rows) = "IntegrityError"
    /\ statements' = Append(statements, CopyStatement)
    /\ temp_table' = NoTempTable
    /\ table_rows' = RolledBack(table_rows, committed_rows)
    /\ exception' = "IntegrityError"
    /\ pc' = "raised"
    /\ UNCHANGED <<mode, tables, table_columns, columns_dict, columns_to_add,
                   columns_to_replace, sync_runs, committed_rows, file_rows,
                   rejected_count, stream_schema_message, self_flatten_schema,
                   keyVars, typeVars, recordVars, sessionVars>>

\* lines 218-220
UpdateFromTempTable ==
    /\ mode = "DbSync" /\ pc = "update"
    /\ ~BreaksPrimaryKey(update_from_temp_table(table_rows, temp_table.rows),
                         PrimaryKeyPositions)
    /\ statements' = Append(statements, UpdateStatement)
    /\ table_rows' = update_from_temp_table(table_rows, temp_table.rows)
    /\ pc' = "insert"
    /\ UNCHANGED <<mode, tables, table_columns, columns_dict, columns_to_add,
                   columns_to_replace, sync_runs, temp_table, committed_rows,
                   file_rows, rejected_count,
                   schemaVars, keyVars, typeVars, recordVars, sessionVars>>

\* lines 221-222
InsertFromTempTable ==
    /\ mode = "DbSync" /\ pc = "insert"
    /\ ~BreaksPrimaryKey(insert_from_temp_table(table_rows, temp_table.rows),
                         PrimaryKeyPositions)
    /\ statements' = Append(statements, InsertStatement)
    /\ table_rows' = insert_from_temp_table(table_rows, temp_table.rows)
    /\ pc' = "drop"
    /\ UNCHANGED <<mode, tables, table_columns, columns_dict, columns_to_add,
                   columns_to_replace, sync_runs, temp_table, committed_rows,
                   file_rows, rejected_count,
                   schemaVars, keyVars, typeVars, recordVars, sessionVars>>

\* line 223
DropTempTable ==
    /\ mode = "DbSync" /\ pc = "drop"
    /\ statements' = Append(statements, drop_temp_table)
    /\ temp_table' = NoTempTable
    /\ pc' = "commit"
    /\ UNCHANGED <<mode, tables, table_columns, columns_dict, columns_to_add,
                   columns_to_replace, sync_runs, table_rows, committed_rows,
                   file_rows, rejected_count,
                   schemaVars, keyVars, typeVars, recordVars, sessionVars>>

\* line 206, the with block ending: the transaction commits, load_csv returns
Commit ==
    /\ mode = "DbSync" /\ pc = "commit"
    /\ committed_rows' = Append(committed_rows, table_rows)
    /\ pc' = "loaded"
    /\ UNCHANGED <<mode, syncVars, table_rows, temp_table, file_rows, rejected_count,
                   schemaVars, keyVars, typeVars, recordVars, sessionVars>>

NextLoad ==
    \/ DbSyncInit
    \/ LoadCsv \/ CopyExpert \/ CopyExpertDataError \/ CopyExpertIntegrityError
    \/ UpdateFromTempTable \/ InsertFromTempTable \/ DropTempTable \/ Commit

SpecLoad == InitLoad /\ [][NextLoad]_vars


\* load_csv has returned from a file it applied
Loaded == mode = "DbSync" /\ pc = "loaded"

\* the table as the load found it and as the load left it
RowsBefore == committed_rows[Len(committed_rows) - 1]
RowsAfter == committed_rows[Len(committed_rows)]

\* the positions of the key properties among the columns
KeyColumns ==
    {i \in DOMAIN self_flatten_schema :
        self_flatten_schema[i][1] \in Range(stream_schema_message.key_properties)}

\* two rows have the same full key
SameKey(s, t) == \A i \in KeyColumns : s[i] # None /\ s[i] = t[i]

\* the number of copies of a row in a bag
Count(bag, r) == IF BagIn(r, bag) THEN bag[r] ELSE 0

AllRows == GoodRows \cup {NullRow, IllTypedRow}

\* C1: upsert correctness.  When load_csv has applied a file to a stream with
\* key properties, every row of the table whose full key no staged row has
\* is there as it was; every row whose full key a staged row has holds that
\* staged row's values; a staged row whose key no row of the table had is in
\* the table exactly once; nothing else is in the table, and the table has
\* grown by the number of staged rows whose key was new.
C1_UpsertCorrectness ==
    (Loaded /\ Len(stream_schema_message.key_properties) > 0) =>
        LET staged == Range(file_rows)
            Kept == {t \in BagToSet(RowsBefore) : \A s \in staged : ~SameKey(s, t)}
            Matched(s) == {t \in BagToSet(RowsBefore) : SameKey(s, t)}
            New == {s \in staged : Matched(s) = {}}
        IN  /\ \A r \in AllRows :
                  Count(RowsAfter, r) =
                      (IF r \in Kept THEN RowsBefore[r] ELSE 0)
                        + (IF r \in staged
                           THEN IF Matched(r) = {} THEN 1 ELSE Copies(Matched(r), RowsBefore)
                           ELSE 0)
            /\ BagToSet(RowsAfter) \subseteq AllRows
            /\ BagCardinality(RowsAfter) = BagCardinality(RowsBefore) + Cardinality(New)
            /\ \A s \in staged : \A t \in BagToSet(RowsAfter) : SameKey(s, t) => t = s

\* a load on a two-column key that replaced the values of a row and inserted
\* a row sharing one key column with it
C1_Witness ==
    /\ Loaded
    /\ Len(stream_schema_message.key_properties) = 2
    /\ \E s \in Range(file_rows), t \in BagToSet(RowsBefore) :
          /\ SameKey(s, t) /\ s # t
          /\ BagIn(s, RowsAfter) /\ ~BagIn(t, RowsAfter)
    /\ \E s \in Range(file_rows), t \in BagToSet(RowsBefore) :
          /\ ~SameKey(s, t) /\ s[1] = t[1]
          /\ RowsAfter[s] = 1

\* C2: no-key append.  When load_csv has applied a file to a stream without
\* key properties, it issued no UPDATE and the table is the table it found
\* with every row of the file added, none replaced and none left out: a file
\* equal to what the table held leaves each row twice.
C2_NoKeyAppend ==
    (Loaded /\ Len(stream_schema_message.key_properties) = 0) =>
        /\ \A i \in DOMAIN statements : statements[i].op # "UPDATE"
        /\ \A r \in AllRows :
              Count(RowsAfter, r) =
                  Count(RowsBefore, r) + Cardinality({i \in DOMAIN file_rows : file_rows[i] = r})
        /\ BagToSet(RowsAfter) \subseteq AllRows
        /\ BagCardinality(RowsAfter) = BagCardinality(RowsBefore) + Len(file_rows)

\* a keyless load of a file equal to what the table held
C2_Witness ==
    /\ Loaded
    /\ Len(stream_schema_message.key_properties) = 0
    /\ file_rows # <<>>
    /\ RowsBefore = BagOfRows(file_rows)
    /\ \A r \in Range(file_rows) : RowsAfter[r] = 2 * RowsBefore[r]

\* the temp table of a stream with key properties holds no key twice
TempKeysUnique ==
    (mode = "DbSync" /\ Len(stream_schema_message.key_properties) > 0) =>
        \A s, t \in BagToSet(temp_table.rows) :
            /\ temp_table.rows[s] = 1
            /\ SameKey(s, t) => s = t


(***************************************************************************)
(* Inflection applied to what it returned.                                 *)
(***************************************************************************)
\* flatten_key has returned
KeyDone == mode = "flatten_key" /\ pc = "done"

\* C11: idempotent identifier inflection.  Whatever the path, flatten_key on
\* the identifier it returned for the path returns that identifier unchanged,
\* and flatten_key on the same path again returns the same identifier.
C11_IdempotentInflection ==
    KeyDone =>
        /\ flatten_key(ident, <<>>) = ident
        /\ flatten_key(full_key[Len(full_key)], SubSeq(full_key, 1, Len(full_key) - 1)) = ident

\* inflect_column_name on each name it returned, and flatten_key on the
\* identifiers it returned of less than 63 characters, change nothing
InflectionOfShortIdempotent ==
    KeyDone =>
        /\ \A i \in DOMAIN full_key :
              inflect_column_name(inflect_column_name(full_key[i]))
                  = inflect_column_name(full_key[i])
        /\ Len(ident) < MaxIdentLen => flatten_key(ident, <<>>) = ident

\* an identifier of exactly 63 characters, which flatten_key shortens again
IdentifierOfLimitLength ==
    KeyDone => ~(Len(ident) = MaxIdentLen /\ flatten_key(ident, <<>>) # ident)


(***************************************************************************)
(* A session loading one file after another into a table that may have a   *)
(* PRIMARY KEY of its own: the one a CREATE TABLE of an earlier SCHEMA     *)
(* message of the stream gave it.                                          *)
(***************************************************************************)
MaxLoads == 2

\* the rows of the files of a session: two values of one key, a row sharing
\* one key column with them, and an ill-typed row
SessionRows ==
    { <<Num(1), Num(1), Str("a")>>, <<Num(1), Num(1), Str("b")>>,
      <<Num(1), Num(2), Str("a")>>, IllTypedRow }

SessionFiles == UNION {[1..n -> SessionRows] : n \in 0..MaxBatchRows}

\* the PRIMARY KEY the table can have, and the rows it can start with
PrimaryKeys ==
    {<<>>, <<safe_column_name(<<"a">>)>>,
     <<safe_column_name(<<"a">>), safe_column_name(<<"b">>)>>}

SessionTables ==
    {SetToBag(rows) :
        rows \in SUBSET {<<Num(1), Num(1), Str("a")>>, <<Num(1), Num(2), Str("a")>>}}

InitSession ==
    /\ mode = "DbSync"
    /\ pc = "new"
    /\ stream_schema_message \in LoadMessages
    /\ self_flatten_schema = <<>>
    /\ exception = "None"
    /\ tables = {"users"}
    /\ table_columns =
          {[column_name |-> LoadProperties[i][1],
            data_type |-> column_type(LoadProperties[i][2]),
            original |-> TRUE] : i \in DOMAIN LoadProperties}
    /\ statements = <<>>
    /\ columns_dict = <<>> /\ columns_to_add = <<>> /\ columns_to_replace = <<>>
    /\ sync_runs = 0
    /\ table_primary_key \in PrimaryKeys
    /\ table_rows \in SessionTables
    /\ ~BreaksPrimaryKey(table_rows,
            {i \in DOMAIN LoadProperties :
                safe_column_name(LoadProperties[i][1]) \in Range(table_primary_key)})
    /\ committed_rows = <<table_rows>>
    /\ temp_table = NoTempTable
    /\ file_rows = <<>>
    /\ rejected_count = 0
    /\ loads = 0
    /\ KeyIdle /\ TypeIdle /\ RecordIdle

\* lines 218-219, the UPDATE breaking the table's PRIMARY KEY: IntegrityError
\* leaves load_csv and the transaction is rolled back
UpdateIntegrityError ==
    /\ mode = "DbSync" /\ pc = "update"
    /\ BreaksPrimaryKey(update_from_temp_table(table_rows, temp_table.rows),
                        PrimaryKeyPositions)
    /\ statements' = Append(statements, UpdateStatement)
    /\ temp_table' = NoTempTable
    /\ table_rows' = RolledBack(update_from_temp_table(table_rows, temp_table.rows),
                                committed_rows)
    /\ exception' = "IntegrityError"
    /\ pc' = "raised"
    /\ UNCHANGED <<mode, tables, table_columns, columns_dict, columns_to_add,
                   columns_to_replace, sync_runs, committed_rows, file_rows,
                   rejected_count, stream_schema_message, self_flatten_schema,
                   keyVars, typeVars, recordVars, sessionVars>>

\* line 221, the INSERT breaking the table's PRIMARY KEY
InsertIntegrityError ==
    /\ mode = "DbSync" /\ pc = "insert"
    /\ BreaksPrimaryKey(insert_from_temp_table(table_rows, temp_table.rows),
                        PrimaryKeyPositions)
    /\ statements' = Append(statements, InsertStatement)
    /\ temp_table' = NoTempTable
    /\ table_rows' = RolledBack(insert_from_temp_table(table_rows, temp_table.rows),
                                committed_rows)
    /\ exception' = "IntegrityError"
    /\ pc' = "raised"
    /\ UNCHANGED <<mode, tables, table_columns, columns_dict, columns_to_add,
                   columns_to_replace, sync_runs, committed_rows, file_rows,
                   rejected_count, stream_schema_message, self_flatten_schema,
                   keyVars, typeVars, recordVars, sessionVars>>

\* load_csv called again by the session, on the next file
LoadCsvNext ==
    /\ mode = "DbSync" /\ pc \in {"constructed", "loaded", "rejected"}
    /\ loads < MaxLoads
    /\ LoadCsvOn(SessionFiles)

NextSession ==
    \/ DbSyncInit
    \/ LoadCsvNext \/ CopyExpert \/ CopyExpertDataError \/ CopyExpertIntegrityError
    \/ UpdateFromTempTable \/ UpdateIntegrityError
    \/ InsertFromTempTable \/ InsertIntegrityError
    \/ DropTempTable \/ Commit

SpecSession == InitSession /\ [][NextSession]_vars


\* the positions inside load_csv
LoadSteps == {"copy", "update", "insert", "drop", "commit"}

\* C12: reject and continue.  Every step that leaves load_csv either has
\* applied the file, and then rejected_count is as it was, or has failed, and
\* then load_csv returns without an exception to its caller, in the position
\* from which the next file is loaded, with rejected_count one higher; no
\* other step changes rejected_count.
C12_RejectAndContinue ==
    [][ /\ (mode = "DbSync" /\ pc \in LoadSteps /\ pc' \notin LoadSteps) =>
              IF pc' = "loaded"
              THEN rejected_count' = rejected_count
              ELSE /\ pc' = "rejected"
                   /\ exception' = "None"
                   /\ rejected_count' = rejected_count + 1
        /\ rejected_count' # rejected_count =>
              (mode = "DbSync" /\ pc \in LoadSteps /\ pc' = "rejected")
      ]_vars

\* a file COPY refuses with DataError is rejected and counted, and the
\* session loads the next file
DataErrorRejected ==
    [][ CopyExpertDataError =>
            /\ pc' = "rejected" /\ exception' = "None"
            /\ rejected_count' = rejected_count + 1
            /\ table_rows' = committed_rows[1]
      ]_vars

LoadedAfterRejected ==
    ~(mode = "DbSync" /\ pc = "loaded" /\ loads = 2 /\ rejected_count = 1
        /\ committed_rows[2] # committed_rows[1])


(***************************************************************************)
(* Malformed schemas and the statements of a session.                      *)
(***************************************************************************)
\* a nullable union without the null marker or without exactly one other branch
UnsupportedUnion(v) ==
    /\ ~Has(v, "type") /\ Has(v, "anyOf")
    /\ ~(HasNullMarker(v) /\ NonNullBranches(v) = 1)

\* a definition that is neither typed nor a nullable union nor empty
UnsupportedShape(v) == v.keys # <<>> /\ ~Has(v, "type") /\ ~Has(v, "anyOf")

\* the schema of the message is malformed
Malformed ==
    \/ \E n \in LeafNodes : UnsupportedUnion(n[2]) \/ UnsupportedShape(n[2])
    \/ Collides

\* C13: schema errors precede all DDL.  For a stream whose schema has an
\* unsupported nullable union, an unsupported property shape or two paths of
\* one flattened name, the construction of the session fails, and at no
\* moment has sync_table been entered or a statement been issued.
C13_SchemaErrorsPrecedeDDL ==
    (mode = "DbSync" /\ Malformed) =>
        /\ pc \in {"new", "raised"}
        /\ pc = "raised" => exception # "None"
        /\ statements = <<>>
        /\ sync_runs = 0
        /\ self_flatten_schema = <<>>

\* a session refused for a duplicate column name, one for an unsupported
\* shape: the stream has no table, so a session would have issued CREATE TABLE
C13_Witness ==
    /\ mode = "DbSync" /\ pc = "raised"
    /\ found_tables = {}
    /\ Collides \/ \E n \in LeafNodes : UnsupportedUnion(n[2])
    /\ ~\E n \in LeafNodes : UnsupportedShape(n[2])


\* the operations a load of the stream issues, in their order
LoadProtocol ==
    IF Len(stream_schema_message.key_properties) > 0
    THEN <<"CREATE TABLE", "COPY", "UPDATE", "INSERT", "DROP TABLE">>
    ELSE <<"CREATE TABLE", "COPY", "INSERT", "DROP TABLE">>

\* the name of the stream's temp table
TempName == [temp |-> stream_schema_message.stream]

\* C14: load protocol order and staging lifetime.  At every moment of a
\* session the statements of the running load_csv are the first ones of
\* CREATE TEMP TABLE, COPY into the temp table, UPDATE from it (with key
\* properties only), INSERT from it, DROP of the temp table; a load that
\* returns as loaded has issued them all; and when load_csv has returned,
\* loaded or rejected, or has not been called yet, there is no temp table: no
\* CREATE TEMP TABLE meets one.
C14_LoadProtocol ==
    (mode = "DbSync" /\ loads > 0) =>
        /\ Len(statements) <= Len(LoadProtocol)
        /\ \A i \in DOMAIN statements : statements[i].op = LoadProtocol[i]
        /\ statements # <<>> =>
              /\ statements[1].temporary /\ statements[1].table = TempName
        /\ \A i \in DOMAIN statements :
              /\ statements[i].op = "COPY" => statements[i].table = TempName
              /\ statements[i].op \in {"UPDATE", "INSERT"} =>
                    /\ statements[i].from = TempName
                    /\ statements[i].table =
                          [schema |-> "public", table |-> stream_schema_message.stream]
              /\ statements[i].op = "DROP TABLE" => statements[i].table = TempName
        /\ pc = "loaded" => Len(statements) = Len(LoadProtocol)
        /\ pc \in {"constructed", "loaded", "rejected"} =>
              /\ ~temp_table.exists
              /\ temp_table.rows = EmptyBag
        /\ pc \in {"copy", "update", "insert", "drop"} => temp_table.exists

\* a load with key properties that returned after the load before it was
\* rejected
C14_Witness ==
    /\ mode = "DbSync" /\ pc = "loaded" /\ loads = 2 /\ rejected_count = 1
    /\ Len(stream_schema_message.key_properties) > 0
    /\ Len(statements) = 5
    /\ ~temp_table.exists


\* sync_table has returned
Synced == mode = "DbSync" /\ pc \in {"created", "updated"}

\* C15: synchronization converges and is idempotent.  When sync_table has
\* returned, from no table or from a table lacking columns, holding columns of
\* other types or columns the schema does not have, the catalog holds the
\* stream's table and in it, once, every column of the flattened schema with
\* the type column_type maps (types read as update_columns reads them, case
\* ignored); a second run of sync_table finds the table, issues no statement
\* and leaves the catalog as it is; and no ADD COLUMN is issued for a column
\* the table has at that moment.
C15_SyncConverges ==
    /\ Synced =>
          /\ found_tables # {}
          /\ \A item \in FlattenSchemaItems :
                /\ \E c \in table_columns :
                      /\ c.column_name = item[1]
                      /\ LowerOf(c.data_type) = LowerOf(column_type(item[2]))
                /\ Cardinality({c \in table_columns : c.column_name = item[1]}) = 1
    /\ (mode = "DbSync" /\ sync_runs = 2) =>
          /\ pc \in {"add", "replace", "updated"}
          /\ statements = <<>>
          /\ columns_to_add = <<>> /\ columns_to_replace = <<>>
          /\ table_columns = ColumnsAtStart
    /\ AddMeetsNoColumn

\* a second run has returned on a table that got a column in the first run and
\* has a column the schema does not have
C15_Witness ==
    /\ Synced /\ sync_runs = 2
    /\ statements = <<>>
    /\ ForeignColumn \in table_columns
    /\ \E c \in table_columns : ~c.original
    /\ \E c \in table_columns : c.original /\ c # ForeignColumn

\* a second run has returned on the table the first run created
C15_WitnessCreated ==
    /\ Synced /\ sync_runs = 2
    /\ statements = <<>>
    /\ self_flatten_schema # <<>>
    /\ \A c \in table_columns : ~c.original
    /\ Cardinality(table_columns) = Len(self_flatten_schema)


\* the message of a stream whose one key property is the top-level property
\* flatten_key was called on
KeyedBy(name) ==
    [stream |-> "users", schema |-> [properties |-> <<>>], key_properties |-> <<name>>]

\* lines 183-188: the name record_primary_key_string looks the key property p
\* up by in the flattened record
RecordKeyName(p) == inflect_column_name(p)

\* C16: key identifiers name real columns.  For a top-level property that is
\* the key property of its stream, the identifier primary_column_names gives
\* it (PRIMARY KEY clause, UPDATE and INSERT predicates) is the quoted
\* identifier flatten_key gives its column, and the name
\* record_primary_key_string looks it up by is that column's identifier.
C16_KeyIdentifiers ==
    (KeyDone /\ Len(full_key) = 1) =>
        /\ primary_column_names(KeyedBy(full_key[1])) = <<safe_column_name(ident)>>
        /\ RecordKeyName(full_key[1]) = ident

\* the key identifiers are the column's whenever the inflected name is shorter
\* than the limit
C16_ShortKeyIdentifiers ==
    (KeyDone /\ Len(full_key) = 1 /\ Len(inflect_column_name(full_key[1])) < MaxIdentLen) =>
        /\ primary_column_names(KeyedBy(full_key[1])) = <<safe_column_name(ident)>>
        /\ RecordKeyName(full_key[1]) = ident

\* a key property of 63 characters whose column got a shortened identifier
C16_LongKeyProperty ==
    /\ KeyDone /\ full_key = <<Rep("a", 63)>>
    /\ ident = <<"a", "a", "a">>
    /\ primary_column_names(KeyedBy(full_key[1])) = <<safe_column_name(Rep("a", 63))>>


\* the CREATE TABLE of the stream's table: every column of the flattened schema
\* with its mapped type, and the quoted identifiers of the key properties
CreateOfEveryColumn ==
    [op |-> "CREATE TABLE",
     temporary |-> FALSE,
     table |-> [schema |-> "public", table |-> stream_schema_message.stream],
     columns |-> [i \in DOMAIN self_flatten_schema |->
                    <<safe_column_name(self_flatten_schema[i][1]),
                      column_type(self_flatten_schema[i][2])>>],
     primary_key |-> [i \in DOMAIN stream_schema_message.key_properties |->
                        safe_column_name(
                            inflect_column_name(stream_schema_message.key_properties[i]))]]

\* a table of the stream's name, case ignored, is in the catalog
TableFound == \E table \in tables : LowerOf(table) = LowerOf(stream_schema_message.stream)

\* C17: absent -> created.  A run of sync_table that finds no table of the
\* stream's name, case ignored, issues one statement, the CREATE TABLE with
\* every column of the flattened schema and its mapped type, and returns; the
\* CREATE has a PRIMARY KEY clause, over the quoted inflected names of the key
\* properties, exactly when there are key properties; a run that finds the
\* table issues no CREATE TABLE, then or later.
C17_AbsentCreated ==
    /\ [][(mode = "DbSync" /\ sync_runs' = sync_runs + 1) =>
            IF TableFound
            THEN /\ pc' = "add" /\ statements' = <<>>
                 /\ tables' = tables
            ELSE /\ pc' = "created" /\ statements' = <<CreateOfEveryColumn>>
                 /\ (statements'[1].primary_key # <<>>)
                       <=> (stream_schema_message.key_properties # <<>>)
                 /\ tables' = tables \cup {LowerOf(stream_schema_message.stream)}]_vars
    /\ [](mode = "DbSync" =>
            /\ pc = "created" =>
                  /\ Len(statements) = 1 /\ statements[1].op = "CREATE TABLE"
            /\ pc \in {"add", "replace", "dropped", "updated"} =>
                  \A i \in DOMAIN statements :
                      statements[i].op \in {"ADD COLUMN", "DROP COLUMN"})

\* the first run of sync_table on stream "Users", with a key property and two
\* columns, found only another stream's table and created the table
C17_Witness ==
    /\ mode = "DbSync" /\ pc = "created" /\ sync_runs = 1
    /\ stream_schema_message.stream = "Users"
    /\ "orders" \in tables
    /\ stream_schema_message.key_properties # <<>>
    /\ Len(self_flatten_schema) = 2
    /\ statements = <<CreateOfEveryColumn>>

\* a run of sync_table on stream "Users" found the table users
C17_WitnessFound ==
    /\ mode = "DbSync" /\ pc = "updated" /\ sync_runs = 1
    /\ stream_schema_message.stream = "Users"
    /\ "users" \in tables


\* the capital letters of the re-camel-cased segment
CapitalSkeleton(segment) == SelectSeq(camelize(segment), IsUpper)

\* what a segment is to be replaced by: the skeleton in lower case when it has
\* more than one letter, else the first 3 characters of the segment
SkeletonOrFirst3(segment) ==
    Lower(IF Len(CapitalSkeleton(segment)) > 1 THEN CapitalSkeleton(segment)
          ELSE First3(segment))

\* the snake-cased segments with the first n of them replaced, by Replacement
ReplacedUpTo(n, Replacement(_)) ==
    [i \in 1..Len(full_key) |->
        IF i <= n THEN Replacement(inflect_column_name(full_key[i]))
        ELSE inflect_column_name(full_key[i])]

\* the shortening runs in path order and only as far as required, the segments
\* being replaced by Replacement: the segments replaced so far are the first
\* reducer_index ones, each was replaced while the join was still too long
\* after the ones before it, and flatten_key returns the join once it is short
\* enough or no segment is left
ShortenedInOrder(Replacement(_)) ==
    (mode = "flatten_key" /\ pc \in {"loop", "done"}) =>
        /\ inflected_key = ReplacedUpTo(reducer_index, Replacement)
        /\ \A n \in 0..(reducer_index - 1) :
              Len(Join(SEP, ReplacedUpTo(n, Replacement))) >= MaxIdentLen
        /\ pc = "done" =>
              /\ ident = Join(SEP, inflected_key)
              /\ Len(ident) < MaxIdentLen \/ reducer_index = Len(full_key)
              /\ Len(Join(SEP, InflectAll(full_key))) < MaxIdentLen =>
                    /\ reducer_index = 0
                    /\ ident = Join(SEP, InflectAll(full_key))

\* C18: shortening only when required and in path order.  A join of the
\* snake-cased segments shorter than the maximum identifier length is returned
\* with no segment altered; otherwise the segments are replaced from the first
\* to the last, each by its capital-letter skeleton in lower case when that
\* has more than one letter, else by its first 3 characters, and a segment is
\* replaced only if the join was still too long after the ones before it.
C18_ShorteningInOrder == ShortenedInOrder(SkeletonOrFirst3)

\* the same with the replacement of lines 56-58, which keeps every character
\* of the re-camel-cased segment that is not a lower-case letter
C18_ShorteningInOrderOfCode == ShortenedInOrder(ReducedSegment)

\* a join shorter than the limit is returned as it is
C18_ShortUnaltered ==
    (KeyDone /\ Len(Join(SEP, InflectAll(full_key))) < MaxIdentLen) =>
        ident = Join(SEP, InflectAll(full_key))

\* a segment of digits replaced by itself, not by its first 3 characters
C18_DigitsKept ==
    /\ KeyDone /\ full_key = <<Rep("1", 63)>>
    /\ reducer_index = 1
    /\ ident = Rep("1", 63)
    /\ SkeletonOrFirst3(Rep("1", 63)) = <<"1", "1", "1">>


(***************************************************************************)
(* A failed load and the rows of the table.                                *)
(***************************************************************************)
\* the table as the running or the last load_csv found it
RowsAtLoad == committed_rows[1]

\* the whole of a file applied to rows: the UPDATE, with key properties only,
\* then the INSERT
Applied(rows, file) ==
    IF Len(stream_schema_message.key_properties) > 0
    THEN insert_from_temp_table(update_from_temp_table(rows, BagOfRows(file)),
                                BagOfRows(file))
    ELSE insert_from_temp_table(rows, BagOfRows(file))

\* load_csv has failed: it rejected the file or an exception left it
Failed == mode = "DbSync" /\ loads > 0 /\ pc \in {"rejected", "raised"}

\* C19: a rejected batch leaves the target table untouched.  load_csv starts on
\* the table as it is; while it runs, what is committed is that table; when a
\* step of it has failed, in COPY, UPDATE or INSERT, the table holds exactly
\* the rows it held when load_csv started, also when the UPDATE had been
\* applied before the INSERT failed; and when it has returned from a file it
\* applied, the table holds the UPDATE and the INSERT of the whole file.
C19_RejectedBatchUntouched ==
    /\ [][(mode = "DbSync" /\ loads' = loads + 1) => RowsAtLoad' = table_rows]_vars
    /\ [][(mode = "DbSync" /\ pc \in LoadSteps /\ pc' \in {"rejected", "raised"}) =>
             /\ table_rows' = RowsAtLoad
             /\ committed_rows' = committed_rows]_vars
    /\ [](mode = "DbSync" =>
            /\ pc \in (LoadSteps \ {"commit"}) => committed_rows = <<RowsAtLoad>>
            /\ Failed =>
                  /\ table_rows = RowsAtLoad
                  /\ committed_rows = <<RowsAtLoad>>
            /\ pc = "loaded" =>
                  /\ table_rows = Applied(RowsAtLoad, file_rows)
                  /\ committed_rows = <<RowsAtLoad, table_rows>>)

\* an INSERT failed after the UPDATE of the same file had changed a row, and
\* the table is as it was
C19_Witness ==
    /\ Failed /\ pc = "raised"
    /\ statements[Len(statements)].op = "INSERT"
    /\ update_from_temp_table(RowsAtLoad, BagOfRows(file_rows)) # RowsAtLoad
    /\ table_rows = RowsAtLoad
    /\ table_rows # EmptyBag

\* a file rejected in COPY by the second load of a session whose first load
\* changed the table
C19_WitnessRejected ==
    /\ Failed /\ pc = "rejected" /\ loads = 2
    /\ statements[Len(statements)].op = "COPY"
    /\ table_rows = RowsAtLoad
    /\ table_rows # EmptyBag
    /\ \E r \in Range(file_rows) : r # IllTypedRow /\ ~BagIn(r, table_rows)

============================================================================
